---- MODULE Spec2Model ----
(***************************************************************************)
(* OCI-Start-CloudGrill.py: the scheduled start/stop run over a recipe     *)
(* card (CSV) of compute instances.                                        *)
(*                                                                         *)
(* The model follows main(): the clock is read once for current_time, the  *)
(* rows are grouped by compartment, and every instance is parsed           *)
(* (convert_time_string), resolved (get_required_action) and reconciled    *)
(* against its live status inside a per-instance try/except.  The control  *)
(* plane (OCIKitchen) and the wall clock are the environment: a call       *)
(* returns any lifecycle state or raises, and midnight may pass between    *)
(* two steps of the run.                                                   *)
(***************************************************************************)
EXTENDS Integers, Sequences, FiniteSets, TLC

\* ------------------------------------------------------------------ bounds
\* The longest recipe card of the batch specification.
MaxEntries == 2
\* How many midnights the wall clock may pass during one run.
MaxMidnights == 1

\* ------------------------------------------------- datetime (Python stdlib)
\* datetime.time(hour, minute) accepts hour 0..23 and minute 0..59.
HoursPerDay == 24
MinutesPerHour == 60
SecondsPerMinute == 60

\* The calendar date (a day number) of the wall clock when a run begins.
Today == 1

\* Optional[datetime]: None, or a datetime that is naive (tz "naive") or
\* aware (tz "utc").  All are records of one shape so that they compare.
None == [tz |-> "None", date |-> 0, hour |-> 0, minute |-> 0, second |-> 0]

DateTime(tz, d, h, m, s) ==
    [tz |-> tz, date |-> d, hour |-> h, minute |-> m, second |-> s]

\* The position of a datetime on the time line, in seconds.
Key(t) ==
    ((t.date * HoursPerDay + t.hour) * MinutesPerHour + t.minute)
        * SecondsPerMinute + t.second

\* Python orders two datetimes only when both are naive or both are aware:
\* "can't compare offset-naive and offset-aware datetimes" is a TypeError.
\* A comparison is "true", "false" or "TypeError".
Le(a, b) ==
    IF a.tz # b.tz THEN "TypeError"
    ELSE IF Key(a) <= Key(b) THEN "true" ELSE "false"

Lt(a, b) ==
    IF a.tz # b.tz THEN "TypeError"
    ELSE IF Key(a) < Key(b) THEN "true" ELSE "false"

Ge(a, b) ==
    IF a.tz # b.tz THEN "TypeError"
    ELSE IF Key(a) >= Key(b) THEN "true" ELSE "false"

\* x and y, x or y: y is evaluated only when x does not decide, and an
\* exception raised by x is raised by the whole expression.
And3(x, y) ==
    IF x = "TypeError" THEN "TypeError"
    ELSE IF x = "false" THEN "false" ELSE y

Or3(x, y) ==
    IF x = "TypeError" THEN "TypeError"
    ELSE IF x = "true" THEN "true" ELSE y

\* ------------------------------------------------------ schedule strings
\* A StartTime / StopTime cell after load_recipe_card's strip(), by what the
\* parser reads of it:
\*   blank  ""                                  (empty, or only white space)
\*   clock  "<hour>:<minute>"                   two integers, any value
\*   iso    "<date>T<hh>:<mm>[:<ss>][+00:00]"   an ISO timestamp
\*   junk   "8am"                               neither
Blank ==
    [shape |-> "blank", date |-> 0, hour |-> 0, minute |-> 0, second |-> 0,
     seconds |-> FALSE, offset |-> FALSE]

Junk ==
    [shape |-> "junk", date |-> 0, hour |-> 0, minute |-> 0, second |-> 0,
     seconds |-> FALSE, offset |-> FALSE]

Clock(h, m) ==
    [shape |-> "clock", date |-> 0, hour |-> h, minute |-> m, second |-> 0,
     seconds |-> FALSE, offset |-> FALSE]

\* seconds: the string has a seconds field; offset: it ends in "+00:00".
Iso(d, h, m, s, seconds, offset) ==
    [shape |-> "iso", date |-> d, hour |-> h, minute |-> m, second |-> s,
     seconds |-> seconds, offset |-> offset]

\* The number of ":" in the string, which is len(split(":")) - 1.
Colons(raw) ==
    CASE raw.shape = "clock" -> 1
      [] raw.shape = "iso" ->
            1 + (IF raw.seconds THEN 1 ELSE 0) + (IF raw.offset THEN 1 ELSE 0)
      [] OTHER -> 0

\* Mutant of convert_time_string: a string that cannot be parsed counts as
\* midnight of today.
convert_time_string_midnight(raw, today) ==
    IF raw.shape = "blank" THEN None
    ELSE IF Colons(raw) = 1
    THEN IF /\ raw.shape = "clock"
            /\ raw.hour \in 0..(HoursPerDay - 1)
            /\ raw.minute \in 0..(MinutesPerHour - 1)
         THEN DateTime("naive", today, raw.hour, raw.minute, 0)
         ELSE DateTime("naive", today, 0, 0, 0)
    ELSE IF raw.shape = "iso"
         THEN DateTime(IF raw.offset THEN "utc" ELSE "naive",
                       raw.date, raw.hour, raw.minute, raw.second)
         ELSE DateTime("naive", today, 0, 0, 0)

\* convert_time_string(time_string) when datetime.now().date() is today.
\* Every exception (int() of a non-number, time() out of range, an invalid
\* ISO string) is caught and None is returned.
convert_time_string(raw, today) ==
    IF raw.shape = "blank" THEN None
    ELSE IF Colons(raw) = 1
    THEN IF /\ raw.shape = "clock"
            /\ raw.hour \in 0..(HoursPerDay - 1)
            /\ raw.minute \in 0..(MinutesPerHour - 1)
         THEN DateTime("naive", today, raw.hour, raw.minute, 0)
         ELSE None
    ELSE IF raw.shape = "iso"
         THEN DateTime(IF raw.offset THEN "utc" ELSE "naive",
                       raw.date, raw.hour, raw.minute, raw.second)
         ELSE None

\* ------------------------------------------------------- the decision
\* get_required_action: "start", "stop", "none", or "TypeError" when a
\* comparison it evaluates raises.
\* Mutants of BothTimes: the lower bound of the same-day window exclusive;
\* its upper bound inclusive; the upper bound of the overnight window
\* inclusive.
BothTimesExclusiveStart(now, st, sp) ==
    LET order == Le(st, sp) IN
    IF order = "TypeError" THEN "TypeError"
    ELSE IF order = "true"
    THEN LET inside == And3(Lt(st, now), Lt(now, sp)) IN
         IF inside = "TypeError" THEN "TypeError"
         ELSE IF inside = "true" THEN "start"
         ELSE LET after == Ge(now, sp) IN
              IF after = "TypeError" THEN "TypeError"
              ELSE IF after = "true" THEN "stop" ELSE "none"
    ELSE LET inside == Or3(Ge(now, st), Lt(now, sp)) IN
         IF inside = "TypeError" THEN "TypeError"
         ELSE IF inside = "true" THEN "start" ELSE "stop"

BothTimesInclusiveStop(now, st, sp) ==
    LET order == Le(st, sp) IN
    IF order = "TypeError" THEN "TypeError"
    ELSE IF order = "true"
    THEN LET inside == And3(Le(st, now), Le(now, sp)) IN
         IF inside = "TypeError" THEN "TypeError"
         ELSE IF inside = "true" THEN "start"
         ELSE LET after == Ge(now, sp) IN
              IF after = "TypeError" THEN "TypeError"
              ELSE IF after = "true" THEN "stop" ELSE "none"
    ELSE LET inside == Or3(Ge(now, st), Lt(now, sp)) IN
         IF inside = "TypeError" THEN "TypeError"
         ELSE IF inside = "true" THEN "start" ELSE "stop"

BothTimesOvernightInclusiveStop(now, st, sp) ==
    LET order == Le(st, sp) IN
    IF order = "TypeError" THEN "TypeError"
    ELSE IF order = "true"
    THEN LET inside == And3(Le(st, now), Lt(now, sp)) IN
         IF inside = "TypeError" THEN "TypeError"
         ELSE IF inside = "true" THEN "start"
         ELSE LET after == Ge(now, sp) IN
              IF after = "TypeError" THEN "TypeError"
              ELSE IF after = "true" THEN "stop" ELSE "none"
    ELSE LET inside == Or3(Ge(now, st), Le(now, sp)) IN
         IF inside = "TypeError" THEN "TypeError"
         ELSE IF inside = "true" THEN "start" ELSE "stop"

\* Lines 76-90: both times are given.
BothTimes(now, st, sp) ==
    LET order == Le(st, sp) IN
    IF order = "TypeError" THEN "TypeError"
    ELSE IF order = "true"
    THEN LET inside == And3(Le(st, now), Lt(now, sp)) IN
         IF inside = "TypeError" THEN "TypeError"
         ELSE IF inside = "true" THEN "start"
         ELSE LET after == Ge(now, sp) IN
              IF after = "TypeError" THEN "TypeError"
              ELSE IF after = "true" THEN "stop" ELSE "none"
    ELSE LET inside == Or3(Ge(now, st), Lt(now, sp)) IN
         IF inside = "TypeError" THEN "TypeError"
         ELSE IF inside = "true" THEN "start" ELSE "stop"

\* Mutant of get_required_action: before its only time, a row with a start
\* time is stopped and a row with a stop time is started.
get_required_action_opposite(now, st, sp) ==
    IF st = None /\ sp = None THEN "none"
    ELSE IF st # None /\ sp = None
    THEN LET c == Ge(now, st) IN
         IF c = "TypeError" THEN "TypeError"
         ELSE IF c = "true" THEN "start" ELSE "stop"
    ELSE IF st = None /\ sp # None
    THEN LET c == Ge(now, sp) IN
         IF c = "TypeError" THEN "TypeError"
         ELSE IF c = "true" THEN "stop" ELSE "start"
    ELSE BothTimes(now, st, sp)

\* Mutant of get_required_action: a single time takes effect only after it
\* (> for >=).
get_required_action_after(now, st, sp) ==
    IF st = None /\ sp = None THEN "none"
    ELSE IF st # None /\ sp = None
    THEN LET c == Lt(st, now) IN
         IF c = "TypeError" THEN "TypeError"
         ELSE IF c = "true" THEN "start" ELSE "none"
    ELSE IF st = None /\ sp # None
    THEN LET c == Lt(sp, now) IN
         IF c = "TypeError" THEN "TypeError"
         ELSE IF c = "true" THEN "stop" ELSE "none"
    ELSE BothTimes(now, st, sp)

\* Lines 59-90.
get_required_action(now, st, sp) ==
    IF st = None /\ sp = None THEN "none"
    ELSE IF st # None /\ sp = None
    THEN LET c == Ge(now, st) IN
         IF c = "TypeError" THEN "TypeError"
         ELSE IF c = "true" THEN "start" ELSE "none"
    ELSE IF st = None /\ sp # None
    THEN LET c == Ge(now, sp) IN
         IF c = "TypeError" THEN "TypeError"
         ELSE IF c = "true" THEN "stop" ELSE "none"
    ELSE BothTimes(now, st, sp)

\* ------------------------------------------------------------ the inputs
InstanceIds == {"r1", "r2"}
CompartmentIds == {"g1", "g2"}

\* One row of the recipe card, as load_recipe_card returns it (InstanceName
\* is only displayed and is left out).
Row(id, cid, st, sp) ==
    [InstanceId |-> id, CompartmentId |-> cid, StartTime |-> st, StopTime |-> sp]

\* The lifecycle states of an instance that the run tells apart, and one
\* (PROVISIONING) of those it does not.
LifecycleStates ==
    {"RUNNING", "STARTING", "STOPPED", "STOPPING", "TERMINATED", "PROVISIONING"}

\* The times of day of the schedule cells and of the clock readings.
ScheduleHours == {8, 18}

NowTimes == {<<7, 59, 59>>, <<8, 0, 0>>, <<17, 59, 59>>, <<18, 0, 0>>, <<23, 0, 0>>}

\* Schedule cells of every kind the parser tells apart.
RawTimes ==
    {Blank, Junk}
    \cup {Clock(h, 0) : h \in ScheduleHours}
    \cup {Clock(HoursPerDay, 0), Clock(8, MinutesPerHour)}
    \cup {Iso(Today, h, 0, 0, TRUE, FALSE) : h \in ScheduleHours}
    \cup {Iso(Today - 1, 18, 0, 0, TRUE, FALSE)}
    \cup {Iso(Today, 8, 0, 0, FALSE, FALSE)}
    \cup {Iso(Today, 8, 0, 0, sec, TRUE) : sec \in BOOLEAN}

\* The schedules of the batch specification: start only, stop only, no time
\* at all, and a start given as an ISO timestamp with a UTC offset.
BatchSchedules ==
    {<<Clock(8, 0), Blank>>, <<Blank, Clock(8, 0)>>, <<Blank, Blank>>,
     <<Iso(Today, 8, 0, 0, TRUE, TRUE), Blank>>}

BatchRows ==
    {Row(id, cid, sch[1], sch[2]) :
        id \in InstanceIds, cid \in CompartmentIds, sch \in BatchSchedules}

\* Recipe cards of at most MaxEntries rows.  The identifiers are opaque, so
\* the first row's are named r1 and g1.
Batches ==
    {b \in UNION {[1..n -> BatchRows] : n \in 0..MaxEntries} :
        Len(b) > 0 => b[1].InstanceId = "r1" /\ b[1].CompartmentId = "g1"}

\* ------------------------------------------------------------- the loader
\* The columns of a recipe card (InstanceName left out), and the sets of
\* columns a card may come with: all of them, or one or two missing.
AllColumns == {"InstanceId", "CompartmentId", "StartTime", "StopTime"}

ColumnSets ==
    {AllColumns, AllColumns \ {"StartTime"}, AllColumns \ {"StopTime"},
     AllColumns \ {"StartTime", "StopTime"}, AllColumns \ {"InstanceId"},
     AllColumns \ {"CompartmentId"}}

\* A card on disk.  A row has no cell in a column the card does not have:
\* instance.get('StartTime', '') reads it as the empty string, which is the
\* Blank cell here.
CsvFile(headers, rows) == [headers |-> headers, rows |-> rows]

FitsColumns(headers, row) ==
    /\ "StartTime" \notin headers => row.StartTime = Blank
    /\ "StopTime" \notin headers => row.StopTime = Blank

CsvFiles ==
    {CsvFile(h, b) : h \in ColumnSets, b \in Batches} \cap
    {f \in [headers : ColumnSets, rows : Batches] :
        \A i \in 1..Len(f.rows) : FitsColumns(f.headers, f.rows[i])}

\* Mutant of load_recipe_card: a row without any time is withheld.
load_recipe_card_timed_rows(file) ==
    IF \/ {"InstanceId", "CompartmentId"} \ file.headers # {}
       \/ "StartTime" \notin file.headers /\ "StopTime" \notin file.headers
    THEN [exit |-> TRUE, instances |-> <<>>]
    ELSE [exit |-> FALSE,
          instances |-> SelectSeq(file.rows,
              LAMBDA row : row.StartTime # Blank \/ row.StopTime # Blank)]

\* load_recipe_card: sys.exit(1) when a required column, or both time
\* columns, are missing (lines 166-176); otherwise every row, its cells
\* stripped (lines 178-181).
load_recipe_card(file) ==
    IF \/ {"InstanceId", "CompartmentId"} \ file.headers # {}
       \/ "StartTime" \notin file.headers /\ "StopTime" \notin file.headers
    THEN [exit |-> TRUE, instances |-> <<>>]
    ELSE [exit |-> FALSE, instances |-> file.rows]

\* -------------------------------------------------------------- grouping
\* group_by_compartment: a dict keeps its keys in insertion order, so the
\* result is a sequence of groups in first-seen order, each holding its rows
\* (by their index in the input) in input order.
\* Mutant of GroupAdd: a row goes in front of the rows of its compartment.
GroupAddRowInFront(groups, cid, i) ==
    IF \E k \in 1..Len(groups) : groups[k].CompartmentId = cid
    THEN [k \in 1..Len(groups) |->
            IF groups[k].CompartmentId = cid
            THEN [groups[k] EXCEPT !.members = <<i>> \o @]
            ELSE groups[k]]
    ELSE Append(groups, [CompartmentId |-> cid, members |-> <<i>>])

\* Mutant of GroupAdd: a compartment seen for the first time goes in front.
GroupAddNewInFront(groups, cid, i) ==
    IF \E k \in 1..Len(groups) : groups[k].CompartmentId = cid
    THEN [k \in 1..Len(groups) |->
            IF groups[k].CompartmentId = cid
            THEN [groups[k] EXCEPT !.members = Append(@, i)]
            ELSE groups[k]]
    ELSE <<[CompartmentId |-> cid, members |-> <<i>>]>> \o groups

GroupAdd(groups, cid, i) ==
    IF \E k \in 1..Len(groups) : groups[k].CompartmentId = cid
    THEN [k \in 1..Len(groups) |->
            IF groups[k].CompartmentId = cid
            THEN [groups[k] EXCEPT !.members = Append(@, i)]
            ELSE groups[k]]
    ELSE Append(groups, [CompartmentId |-> cid, members |-> <<i>>])

RECURSIVE GroupFrom(_, _, _)
GroupFrom(rows, i, groups) ==
    IF i > Len(rows) THEN groups
    ELSE GroupFrom(rows, i + 1, GroupAdd(groups, rows[i].CompartmentId, i))

group_by_compartment(rows) == GroupFrom(rows, 1, <<>>)

\* ---------------------------------------------------------------- state
VARIABLES
    csv_file,          \* the recipe card on disk: its columns and its rows
    clock_date,        \* the calendar date of the wall clock
    current_time,      \* main: the one reading of the clock (line 232)
    instances,         \* main: the rows load_recipe_card returned
    compartments,      \* main: instances_by_compartment
    gi, ei, \* the position of the two for loops
    start_time,        \* main: the parsed StartTime of the current row
    stop_time,         \* main: the parsed StopTime of the current row
    required_action,   \* main: what get_required_action returned
    instance_status,   \* main: what get_instance_status returned
    pc,                \* where main is
    report,            \* the outcome written to the console for each row
    calls              \* the control-plane calls made, in order

vars ==
    <<csv_file, clock_date, current_time, instances, compartments, gi, ei, start_time,
      stop_time, required_action, instance_status, pc, report, calls>>

\* The row the loops are at (its index in instances).
CurrentRow == compartments[gi].members[ei]

Instance == instances[CurrentRow]

\* ------------------------------------------------------------ outcomes
\* What the run prints last for a row: "no action needed" (Skipped), "Start /
\* Stop command completed" (Applied) or "Kitchen accident ...: <message>"
\* (Failed, with the message of the exception raised by OCIKitchen).
Outcome(row, action, kind, detail) ==
    [row |-> row, InstanceId |-> instances[row].InstanceId,
     CompartmentId |-> instances[row].CompartmentId,
     action |-> action, kind |-> kind, detail |-> detail]

\* A call of OCIKitchen made for a row, with what it returned: a lifecycle
\* state (getStatus), "ok" (start, stop) or "raised".
Call(op, row, result) ==
    [op |-> op, InstanceId |-> instances[row].InstanceId, row |-> row,
     result |-> result]

\* Mutants of SkipReason: an instance that is starting is started again; an
\* instance that is stopping is not started.
SkipReasonRunningOnly(action, status) ==
    IF action = "start"
    THEN IF status = "RUNNING" THEN "AlreadyInState" ELSE "apply"
    ELSE IF status \in {"STOPPED", "TERMINATED"} THEN "AlreadyInState"
         ELSE IF status = "STOPPING" THEN "InTransition" ELSE "apply"

SkipReasonAnyTransition(action, status) ==
    IF status \in {"STARTING", "STOPPING"} THEN "InTransition"
    ELSE IF action = "start"
    THEN IF status = "RUNNING" THEN "AlreadyInState" ELSE "apply"
    ELSE IF status \in {"STOPPED", "TERMINATED"} THEN "AlreadyInState"
         ELSE "apply"

\* Whether the reconciliation leaves the instance alone, and why.
SkipReason(action, status) ==
    IF action = "start"
    THEN IF status = "RUNNING" THEN "AlreadyInState"
         ELSE IF status = "STARTING" THEN "InTransition" ELSE "apply"
    ELSE IF status \in {"STOPPED", "TERMINATED"} THEN "AlreadyInState"
         ELSE IF status = "STOPPING" THEN "InTransition" ELSE "apply"

\* The control-plane call of an action, its message when it raises and the
\* outcome when it returns.
ActionCall(action) == IF action = "start" THEN "start" ELSE "stop"

ActionError(action) ==
    IF action = "start" THEN "Failed to start instance"
    ELSE "Failed to stop instance"

Applied(action) == IF action = "start" THEN "Started" ELSE "Stopped"

\* ------------------------------------------------------------- the run
InitCommon ==
    /\ clock_date = Today
    /\ instances = <<>>
    /\ compartments = <<>>
    /\ gi = 1
    /\ ei = 1
    /\ start_time = None
    /\ stop_time = None
    /\ required_action = "none"
    /\ instance_status = "unset"
    /\ pc = "load"
    /\ report = <<>>
    /\ calls = <<>>

\* A run over any recipe card of at most MaxEntries rows, late in the day.
Init ==
    /\ InitCommon
    /\ current_time = DateTime("naive", Today, 23, 0, 0)
    /\ csv_file \in CsvFiles

\* A run over one row with any pair of schedule cells at any time of day.
InitResolve ==
    /\ InitCommon
    /\ \E t \in NowTimes : current_time = DateTime("naive", Today, t[1], t[2], t[3])
    /\ \E st \in RawTimes, sp \in RawTimes :
          csv_file = CsvFile(AllColumns, <<Row("r1", "g1", st, sp)>>)

\* Recipe cards of MaxEntries + 1 rows that differ in their compartment
\* only: every row is of instance r1, with a start time of 08:00 and no stop
\* time, so a card may hold the same row more than once.
OrderBatches ==
    {b \in [1..(MaxEntries + 1) ->
                {Row("r1", cid, Clock(8, 0), Blank) : cid \in CompartmentIds}] :
        b[1].CompartmentId = "g1"}

\* A run over such a card, late in the day.
InitOrder ==
    /\ InitCommon
    /\ current_time = DateTime("naive", Today, 23, 0, 0)
    /\ \E b \in OrderBatches : csv_file = CsvFile(AllColumns, b)

\* Midnight passes: datetime.now().date() is one more from here on.
Midnight ==
    /\ pc \notin {"done", "crashed", "exit"}
    /\ clock_date < Today + MaxMidnights
    /\ clock_date' = clock_date + 1
    /\ UNCHANGED <<csv_file, current_time, instances, compartments, gi, ei,
                   start_time, stop_time, required_action, instance_status,
                   pc, report, calls>>

\* Line 239: the card is read, or the run exits.
LoadRecipeCard ==
    /\ pc = "load"
    /\ LET loaded == load_recipe_card(csv_file) IN
       /\ instances' = loaded.instances
       /\ pc' = IF loaded.exit THEN "exit" ELSE "group"
    /\ UNCHANGED <<csv_file, clock_date, current_time, compartments, gi, ei,
                   start_time, stop_time, required_action, instance_status,
                   report, calls>>

\* Line 242.
GroupByCompartment ==
    /\ pc = "group"
    /\ compartments' = group_by_compartment(instances)
    /\ pc' = "next"
    /\ UNCHANGED <<csv_file, clock_date, current_time, instances, gi, ei,
                   start_time, stop_time, required_action, instance_status,
                   report, calls>>

\* The position after the current row: the next row of the group, or the
\* first row of the next group.
NextGi == IF ei < Len(compartments[gi].members) THEN gi ELSE gi + 1

NextEi == IF ei < Len(compartments[gi].members) THEN ei + 1 ELSE 1

\* The end of the loop body (line 309): on to the next row.
Continue ==
    /\ gi' = NextGi
    /\ ei' = NextEi
    /\ pc' = "next"

\* Line 264: the clock is read for the date of an HH:MM start time.
ParseStart ==
    /\ pc = "next"
    /\ gi <= Len(compartments)
    /\ start_time' = convert_time_string(Instance.StartTime, clock_date)
    /\ pc' = "parse_stop"
    /\ UNCHANGED <<csv_file, clock_date, current_time, instances,
                   compartments, gi, ei, stop_time, required_action,
                   instance_status, report, calls>>

\* Line 265: the clock is read again for the stop time.
ParseStop ==
    /\ pc = "parse_stop"
    /\ stop_time' = convert_time_string(Instance.StopTime, clock_date)
    /\ pc' = "resolve"
    /\ UNCHANGED <<csv_file, clock_date, current_time, instances,
                   compartments, gi, ei, start_time, required_action,
                   instance_status, report, calls>>

\* Mutant of Resolve: no continue for the action none, the row goes on to
\* the status call.
ResolveWithoutContinue ==
    /\ pc = "resolve"
    /\ LET action == get_required_action(current_time, start_time, stop_time) IN
       IF action = "TypeError"
       THEN /\ pc' = "crashed"
            /\ UNCHANGED required_action
       ELSE /\ required_action' = action
            /\ pc' = "get_status"
    /\ UNCHANGED <<csv_file, clock_date, current_time, instances, compartments,
                   gi, ei, start_time, stop_time, instance_status, report,
                   calls>>

\* Lines 273-279.  The call is outside the try: a TypeError ends the run.
Resolve ==
    /\ pc = "resolve"
    /\ LET action == get_required_action(current_time, start_time, stop_time) IN
       IF action = "TypeError"
       THEN /\ pc' = "crashed"
            /\ UNCHANGED <<gi, ei, required_action, report>>
       ELSE /\ required_action' = action
            /\ IF action = "none"
               THEN /\ report' = Append(report,
                          Outcome(CurrentRow, "none", "Skipped", "NoActionNeeded"))
                    /\ Continue
               ELSE /\ pc' = "get_status"
                    /\ UNCHANGED <<gi, ei, report>>
    /\ UNCHANGED <<csv_file, clock_date, current_time, instances,
                   compartments, start_time, stop_time, instance_status,
                   calls>>

\* Mutant of GetStatus: the status fetched earlier in the run for the same
\* instance is used again, without a call.
GetStatusCached ==
    /\ pc = "get_status"
    /\ LET earlier == {k \in 1..Len(calls) :
                          /\ calls[k].op = "getStatus"
                          /\ calls[k].InstanceId = Instance.InstanceId
                          /\ calls[k].result \in LifecycleStates} IN
       IF earlier # {}
       THEN /\ \E k \in earlier : instance_status' = calls[k].result
            /\ UNCHANGED calls
       ELSE \E status \in LifecycleStates :
               /\ instance_status' = status
               /\ calls' = Append(calls, Call("getStatus", CurrentRow, status))
    /\ pc' = "reconcile"
    /\ UNCHANGED <<csv_file, clock_date, current_time, instances, compartments,
                   gi, ei, start_time, stop_time, required_action, report>>

\* Line 283, get_instance_status returns a lifecycle state.
GetStatus ==
    /\ pc = "get_status"
    /\ \E status \in LifecycleStates :
          /\ instance_status' = status
          /\ calls' = Append(calls, Call("getStatus", CurrentRow, status))
    /\ pc' = "reconcile"
    /\ UNCHANGED <<csv_file, clock_date, current_time, instances,
                   compartments, gi, ei, start_time, stop_time,
                   required_action, report>>

\* Mutant of GetStatusFails: the failure is swallowed and the row carries on
\* with the status it has at hand.
GetStatusFailsCarriesOn ==
    /\ pc = "get_status"
    /\ calls' = Append(calls, Call("getStatus", CurrentRow, "raised"))
    /\ pc' = "reconcile"
    /\ UNCHANGED <<csv_file, clock_date, current_time, instances,
                   compartments, gi, ei, start_time, stop_time,
                   required_action, instance_status, report>>

\* Mutant of GetStatusFails: the except ends the run instead of the row.
GetStatusFailsEndsRun ==
    /\ pc = "get_status"
    /\ calls' = Append(calls, Call("getStatus", CurrentRow, "raised"))
    /\ report' = Append(report,
          Outcome(CurrentRow, required_action, "Failed",
                  "Failed to get instance status"))
    /\ gi' = Len(compartments) + 1
    /\ ei' = 1
    /\ pc' = "next"
    /\ UNCHANGED <<csv_file, clock_date, current_time, instances,
                   compartments, start_time, stop_time, required_action,
                   instance_status>>

\* Line 283, get_instance_status raises: the except of line 306.
GetStatusFails ==
    /\ pc = "get_status"
    /\ calls' = Append(calls, Call("getStatus", CurrentRow, "raised"))
    /\ report' = Append(report,
          Outcome(CurrentRow, required_action, "Failed",
                  "Failed to get instance status"))
    /\ Continue
    /\ UNCHANGED <<csv_file, clock_date, current_time, instances,
                   compartments, start_time, stop_time, required_action,
                   instance_status>>

\* Lines 287-290 and 297-300: the instance is where it should be, or on
\* its way.
LeaveAlone ==
    /\ pc = "reconcile"
    /\ SkipReason(required_action, instance_status) # "apply"
    /\ report' = Append(report,
          Outcome(CurrentRow, required_action, "Skipped",
                  SkipReason(required_action, instance_status)))
    /\ Continue
    /\ UNCHANGED <<csv_file, clock_date, current_time, instances,
                   compartments, start_time, stop_time, required_action,
                   instance_status, calls>>

\* Lines 292-294 and 302-304: start_instance / stop_instance returns.
Apply ==
    /\ pc = "reconcile"
    /\ SkipReason(required_action, instance_status) = "apply"
    /\ calls' = Append(calls, Call(ActionCall(required_action), CurrentRow, "ok"))
    /\ report' = Append(report,
          Outcome(CurrentRow, required_action, "Applied", Applied(required_action)))
    /\ Continue
    /\ UNCHANGED <<csv_file, clock_date, current_time, instances,
                   compartments, start_time, stop_time, required_action,
                   instance_status>>

\* Lines 293 and 303 raise: the except of line 306.
ApplyFails ==
    /\ pc = "reconcile"
    /\ SkipReason(required_action, instance_status) = "apply"
    /\ calls' = Append(calls, Call(ActionCall(required_action), CurrentRow, "raised"))
    /\ report' = Append(report,
          Outcome(CurrentRow, required_action, "Failed", ActionError(required_action)))
    /\ Continue
    /\ UNCHANGED <<csv_file, clock_date, current_time, instances,
                   compartments, start_time, stop_time, required_action,
                   instance_status>>

\* Lines 314-316: both loops are exhausted.
Finish ==
    /\ pc = "next"
    /\ gi > Len(compartments)
    /\ pc' = "done"
    /\ UNCHANGED <<csv_file, clock_date, current_time, instances,
                   compartments, gi, ei, start_time, stop_time,
                   required_action, instance_status, report, calls>>

\* A step of the program (the clock is not one).
RunStep ==
    \/ LoadRecipeCard
    \/ GroupByCompartment
    \/ ParseStart
    \/ ParseStop
    \/ Resolve
    \/ GetStatus
    \/ GetStatusFails
    \/ LeaveAlone
    \/ Apply
    \/ ApplyFails
    \/ Finish

Next ==
    \/ Midnight
    \/ RunStep

Spec == Init /\ [][Next]_vars

SpecResolve == InitResolve /\ [][Next]_vars

SpecOrder == InitOrder /\ [][Next]_vars

\* ================================================================ claims
\* Helpers of the claims.
Actions == {"start", "stop", "none"}

\* The rows in the order the two loops visit them.
RECURSIVE Flatten(_, _)
Flatten(groups, k) ==
    IF k > Len(groups) THEN <<>>
    ELSE groups[k].members \o Flatten(groups, k + 1)

ProcessingOrder == Flatten(compartments, 1)

\* How many rows the loops have left behind.
RECURSIVE RowsBefore(_)
RowsBefore(k) ==
    IF k = 0 THEN 0 ELSE Len(compartments[k].members) + RowsBefore(k - 1)

RowsLeftBehind == RowsBefore(gi - 1) + (ei - 1)

\* The calls made for a row, in order, and its outcomes.
CallsOf(r) == SelectSeq(calls, LAMBDA c : c.row = r)

OutcomesOf(r) == SelectSeq(report, LAMBDA o : o.row = r)

\* required_action, start_time and stop_time are those of one row: the row
\* has been resolved and the next one is not being parsed yet.
Resolved ==
    \/ pc \in {"get_status", "reconcile"}
    \/ pc \in {"next", "done"} /\ report # <<>>

\* Both times can be ordered with current_time (all naive).
OnTimeLine(t) == t.tz = current_time.tz

Now == Key(current_time)

\* The outcomes of the specification, in the words of the run's messages.
IsStatusFetchError(o) ==
    o.kind = "Failed" /\ o.detail = "Failed to get instance status"

IsActionError(o) ==
    o.kind = "Failed"
    /\ o.detail \in {"Failed to start instance", "Failed to stop instance"}

OutcomeKinds ==
    {<<"Skipped", "NoActionNeeded">>, <<"Skipped", "AlreadyInState">>,
     <<"Skipped", "InTransition">>, <<"Applied", "Started">>,
     <<"Applied", "Stopped">>, <<"Failed", "Failed to get instance status">>,
     <<"Failed", "Failed to start instance">>,
     <<"Failed", "Failed to stop instance">>}

\* The live states in which an action is not applied (spec 4.4, step 4).
InState(action) ==
    IF action = "start" THEN {"RUNNING"} ELSE {"STOPPED", "TERMINATED"}

InTransition(action) ==
    IF action = "start" THEN {"STARTING"} ELSE {"STOPPING"}

\* The outcome and calls of a row that no call failed for, from the row's own
\* action and what its own calls returned.
OwnOutcome(o) ==
    LET cs == CallsOf(o.row) IN
    IF o.action = "none"
    THEN cs = <<>> /\ o.kind = "Skipped" /\ o.detail = "NoActionNeeded"
    ELSE /\ Len(cs) >= 1
         /\ cs[1].op = "getStatus"
         /\ cs[1].result \in LifecycleStates
         /\ IF cs[1].result \in InState(o.action)
            THEN Len(cs) = 1 /\ o.kind = "Skipped" /\ o.detail = "AlreadyInState"
            ELSE IF cs[1].result \in InTransition(o.action)
            THEN Len(cs) = 1 /\ o.kind = "Skipped" /\ o.detail = "InTransition"
            ELSE /\ Len(cs) = 2
                 /\ cs[2].op = o.action
                 /\ cs[2].result = "ok"
                 /\ o.kind = "Applied"
                 /\ o.detail = (IF o.action = "start" THEN "Started" ELSE "Stopped")

\* C1 (Spec): failure isolation.  Once a getStatus, start or stop call has
\* raised for some row, that row has a Failed outcome, the run has still
\* given every row it left behind one outcome, in processing order, it is at
\* the row after them (when done, it has left every row behind), and every
\* row without a failed call has the outcome and the calls that its own
\* action and its own calls' results give.
C1_FailureIsolation ==
    (\E k \in 1..Len(calls) : calls[k].result = "raised") =>
        /\ \A k \in 1..Len(calls) :
              calls[k].result = "raised" =>
                  /\ Len(OutcomesOf(calls[k].row)) = 1
                  /\ OutcomesOf(calls[k].row)[1].kind = "Failed"
        /\ \A k \in 1..Len(report) : report[k].row = ProcessingOrder[k]
        /\ Len(report) = RowsLeftBehind
        /\ pc = "done" => Len(report) = Len(instances)
        /\ \A k \in 1..Len(report) :
              report[k].kind # "Failed" => OwnOutcome(report[k])

\* A row whose start call failed is followed by a row of the next group that
\* was started.
C1_Witness ==
    /\ pc = "done"
    /\ Len(report) = 2
    /\ report[1].CompartmentId # report[2].CompartmentId
    /\ report[1].kind = "Failed"
    /\ report[1].detail = "Failed to start instance"
    /\ report[2].kind = "Applied"
    /\ report[2].detail = "Started"

\* C2 (SpecResolve): same-day window.  With both times present and
\* start <= stop, the action is start exactly when start <= now < stop, stop
\* exactly when now >= stop and none exactly when now < start.
C2_SameDayWindow ==
    (/\ Resolved
     /\ start_time # None /\ stop_time # None
     /\ OnTimeLine(start_time) /\ OnTimeLine(stop_time)
     /\ Key(start_time) <= Key(stop_time)) =>
        /\ required_action = "start" <=>
              (Key(start_time) <= Now /\ Now < Key(stop_time))
        /\ required_action = "stop" <=> Now >= Key(stop_time)
        /\ required_action = "none" <=> Now < Key(start_time)

\* now = start < stop resolves to start (the lower bound is inclusive).
C2_Witness ==
    /\ Resolved
    /\ start_time # None /\ stop_time # None
    /\ OnTimeLine(start_time) /\ OnTimeLine(stop_time)
    /\ Key(start_time) < Key(stop_time)
    /\ Now = Key(start_time)
    /\ required_action = "start"

\* C3 (SpecResolve): overnight window.  With both times present and
\* start > stop, the action is start exactly when now >= start or now < stop,
\* stop exactly when stop <= now < start, and never none.
C3_OvernightWindow ==
    (/\ Resolved
     /\ start_time # None /\ stop_time # None
     /\ OnTimeLine(start_time) /\ OnTimeLine(stop_time)
     /\ Key(start_time) > Key(stop_time)) =>
        /\ required_action = "start" <=>
              (Now >= Key(start_time) \/ Now < Key(stop_time))
        /\ required_action = "stop" <=>
              (Key(stop_time) <= Now /\ Now < Key(start_time))
        /\ required_action # "none"

\* stop = now < start resolves to stop (the upper bound is exclusive).
C3_Witness ==
    /\ Resolved
    /\ start_time # None /\ stop_time # None
    /\ OnTimeLine(start_time) /\ OnTimeLine(stop_time)
    /\ Key(start_time) > Key(stop_time)
    /\ Now = Key(stop_time)
    /\ required_action = "stop"

\* C4 (SpecResolve): single-sided schedule.  With only a start time the
\* action is start exactly when now >= start and none otherwise; with only a
\* stop time it is stop exactly when now >= stop and none otherwise.
C4_SingleSided ==
    /\ (Resolved /\ start_time # None /\ stop_time = None
            /\ OnTimeLine(start_time)) =>
          /\ required_action = "start" <=> Now >= Key(start_time)
          /\ required_action = "none" <=> Now < Key(start_time)
          /\ required_action # "stop"
    /\ (Resolved /\ start_time = None /\ stop_time # None
            /\ OnTimeLine(stop_time)) =>
          /\ required_action = "stop" <=> Now >= Key(stop_time)
          /\ required_action = "none" <=> Now < Key(stop_time)
          /\ required_action # "start"

\* Only a stop time, reached at this instant: stop.
C4_Witness ==
    /\ Resolved
    /\ start_time = None /\ stop_time # None
    /\ OnTimeLine(stop_time)
    /\ Now = Key(stop_time)
    /\ required_action = "stop"

\* C5 (SpecResolve), as claimed: with start = stop, the action is start at
\* the instant now = start = stop and none for every other now.
C5_DegenerateStartsAtInstant ==
    (/\ Resolved
     /\ start_time # None /\ stop_time # None
     /\ OnTimeLine(start_time) /\ OnTimeLine(stop_time)
     /\ Key(start_time) = Key(stop_time)) =>
        /\ required_action = "start" <=> Now = Key(start_time)
        /\ required_action = "none" <=> Now # Key(start_time)

\* C5 (SpecResolve), amended: with start = stop, the action is stop for every
\* now >= start, none for every now < start, and never start.
C5_DegenerateStopsFrom ==
    (/\ Resolved
     /\ start_time # None /\ stop_time # None
     /\ OnTimeLine(start_time) /\ OnTimeLine(stop_time)
     /\ Key(start_time) = Key(stop_time)) =>
        /\ required_action = "stop" <=> Now >= Key(start_time)
        /\ required_action = "none" <=> Now < Key(start_time)
        /\ required_action # "start"

\* now = start = stop resolves to stop.
C5_Witness ==
    /\ Resolved
    /\ start_time # None /\ stop_time # None
    /\ OnTimeLine(start_time) /\ OnTimeLine(stop_time)
    /\ Key(start_time) = Key(stop_time)
    /\ Now = Key(start_time)
    /\ required_action = "stop"

\* C6 (SpecResolve): get_required_action is total.  For the current_time of
\* the run and every pair of values the parser returned, it returns start,
\* stop or none (it does not raise).
C6_ResolveIsTotal ==
    pc = "resolve" =>
        get_required_action(current_time, start_time, stop_time) \in Actions

\* C7 (Spec): a run that has begun with the rows and has not completed can
\* take a step, and a completed run has visited every row; so no run ends
\* early.
C7_RunReachesCompletion ==
    /\ pc \notin {"load", "group", "exit", "done"} => ENABLED RunStep
    /\ pc = "done" => \A r \in 1..Len(instances) : OutcomesOf(r) # <<>>

\* C8 (Spec): when a run has ended, every row has exactly one outcome, of one
\* of the kinds of the specification.
C8_ExactlyOneOutcome ==
    pc \in {"done", "crashed"} =>
        \A r \in 1..Len(instances) :
            /\ Len(OutcomesOf(r)) = 1
            /\ <<OutcomesOf(r)[1].kind, OutcomesOf(r)[1].detail>> \in OutcomeKinds

\* The action of a row that getStatus was called for.
ActionOf(r) ==
    IF OutcomesOf(r) # <<>> THEN OutcomesOf(r)[1].action ELSE required_action

\* C9 (Spec): skip rules.  A row resolved to start whose getStatus returned
\* RUNNING or STARTING, or resolved to stop whose getStatus returned STOPPED,
\* TERMINATED or STOPPING, has no start or stop call, and its outcome is
\* Skipped(AlreadyInState) for RUNNING / STOPPED / TERMINATED and
\* Skipped(InTransition) for STARTING / STOPPING.
C9_SkipRules ==
    \A k \in 1..Len(calls) :
        LET c == calls[k]
            a == ActionOf(c.row)
        IN (/\ c.op = "getStatus"
            /\ \/ a = "start" /\ c.result \in {"RUNNING", "STARTING"}
               \/ a = "stop" /\ c.result \in {"STOPPED", "TERMINATED", "STOPPING"}) =>
              /\ \A j \in 1..Len(calls) :
                    calls[j].row = c.row => calls[j].op = "getStatus"
              /\ \A o \in {report[j] : j \in 1..Len(report)} :
                    o.row = c.row =>
                        /\ o.kind = "Skipped"
                        /\ o.detail =
                              (IF c.result \in {"RUNNING", "STOPPED", "TERMINATED"}
                               THEN "AlreadyInState" ELSE "InTransition")

\* A row resolved to start was found STARTING and skipped as in transition.
C9_Witness ==
    \E k \in 1..Len(calls), j \in 1..Len(report) :
        /\ calls[k].op = "getStatus"
        /\ calls[k].result = "STARTING"
        /\ report[j].row = calls[k].row
        /\ report[j].action = "start"
        /\ report[j].kind = "Skipped"
        /\ report[j].detail = "InTransition"

\* C10 (Spec): apply rules.  A processed row resolved to start whose
\* getStatus returned anything but RUNNING or STARTING has exactly one start
\* call and no stop call; resolved to stop with anything but STOPPED,
\* TERMINATED or STOPPING, exactly one stop call and no start call.  The
\* outcome is Applied when the call returned and Failed(ActionError) when it
\* raised.
C10_ApplyRules ==
    \A j \in 1..Len(report) :
        LET o == report[j]
            cs == CallsOf(o.row)
        IN (/\ o.action \in {"start", "stop"}
            /\ cs # <<>>
            /\ cs[1].result \in LifecycleStates
            /\ \/ o.action = "start" /\ cs[1].result \notin {"RUNNING", "STARTING"}
               \/ o.action = "stop"
                    /\ cs[1].result \notin {"STOPPED", "TERMINATED", "STOPPING"}) =>
              /\ Len(cs) = 2
              /\ cs[2].op = o.action
              /\ cs[2].result = "ok" =>
                    /\ o.kind = "Applied"
                    /\ o.detail = (IF o.action = "start" THEN "Started" ELSE "Stopped")
              /\ cs[2].result = "raised" => IsActionError(o)
              /\ cs[2].result \in {"ok", "raised"}

\* A row resolved to start was found STOPPING and started.
C10_Witness ==
    \E j \in 1..Len(report) :
        /\ report[j].action = "start"
        /\ report[j].kind = "Applied"
        /\ CallsOf(report[j].row)[1].result = "STOPPING"
        /\ CallsOf(report[j].row)[2].op = "start"

\* C11 (Spec): status fetch failure.  A row whose getStatus call raised has
\* that call and no other (neither start nor stop was invoked for it), has
\* the one outcome Failed with the status fetch error, and the run has gone
\* past it: it is among the rows left behind, each of which has an outcome.
C11_StatusFetchFailure ==
    \A k \in 1..Len(calls) :
        (calls[k].op = "getStatus" /\ calls[k].result = "raised") =>
            LET r == calls[k].row IN
            /\ CallsOf(r) = <<calls[k]>>
            /\ Len(OutcomesOf(r)) = 1
            /\ IsStatusFetchError(OutcomesOf(r)[1])
            /\ \E j \in 1..RowsLeftBehind : ProcessingOrder[j] = r
            /\ \A j \in 1..RowsLeftBehind : OutcomesOf(ProcessingOrder[j]) # <<>>

\* The status of the first row could not be fetched, and the second row was
\* started after its own status was fetched.
C11_Witness ==
    /\ pc = "done"
    /\ Len(report) = 2
    /\ IsStatusFetchError(report[1])
    /\ report[2].kind = "Applied"
    /\ Len(calls) = 3
    /\ calls[1].result = "raised"
    /\ calls[2].row = report[2].row
    /\ calls[3].op = "start"

\* C12 (Spec): no action needed.  A row whose resolved action is none has the
\* outcome Skipped(NoActionNeeded), and no getStatus, start or stop call was
\* made for it.
C12_NoActionNeeded ==
    \A k \in 1..Len(report) :
        report[k].action = "none" =>
            /\ report[k].kind = "Skipped"
            /\ report[k].detail = "NoActionNeeded"
            /\ OutcomesOf(report[k].row) = <<report[k]>>
            /\ CallsOf(report[k].row) = <<>>

\* A row without times was skipped without a call, and the row after it was
\* started after its status was fetched.
C12_Witness ==
    /\ pc = "done"
    /\ Len(report) = 2
    /\ instances[report[1].row].StartTime = Blank
    /\ instances[report[1].row].StopTime = Blank
    /\ report[1].action = "none"
    /\ report[1].detail = "NoActionNeeded"
    /\ report[2].kind = "Applied"
    /\ Len(calls) = 2
    /\ \A k \in 1..2 : calls[k].row = report[2].row

\* Row i is the first row of the card with its compartment.
FirstOfCompartment(i) ==
    \A h \in 1..(i - 1) : instances[h].CompartmentId # instances[i].CompartmentId

\* The rows of the card that have the compartment of row i, in card order.
RECURSIVE RowsOfCompartment(_, _)
RowsOfCompartment(i, j) ==
    IF j > Len(instances) THEN <<>>
    ELSE (IF instances[j].CompartmentId = instances[i].CompartmentId
          THEN <<j>> ELSE <<>>) \o RowsOfCompartment(i, j + 1)

\* The order "compartments as first seen, rows of a compartment in card
\* order", from row i on.
RECURSIVE ExpectedFrom(_)
ExpectedFrom(i) ==
    IF i > Len(instances) THEN <<>>
    ELSE (IF FirstOfCompartment(i) THEN RowsOfCompartment(i, i) ELSE <<>>)
             \o ExpectedFrom(i + 1)

ExpectedOrder == ExpectedFrom(1)

\* C13 (SpecOrder): strictly sequential processing.  The outcomes are those
\* of the first rows in the order "compartments as first seen, rows of a
\* compartment in card order", one for each; the calls are made in that
\* order of rows; and every call belongs to a row that has its outcome, or
\* to the one row that is being processed, which is the row after those.
C13_SequentialOrder ==
    LET expected == ExpectedOrder IN
    /\ Len(report) <= Len(expected)
    /\ \A k \in 1..Len(report) : report[k].row = expected[k]
    /\ \A k \in 1..(Len(calls) - 1) :
          \/ calls[k].row = calls[k + 1].row
          \/ \E p \in 1..Len(expected) : \E q \in (p + 1)..Len(expected) :
                calls[k].row = expected[p] /\ calls[k + 1].row = expected[q]
    /\ \A k \in 1..Len(calls) :
          \/ \E p \in 1..Len(report) : calls[k].row = expected[p]
          \/ /\ pc = "reconcile"
             /\ calls[k].row = CurrentRow
             /\ calls[k].row = expected[Len(report) + 1]

\* The card [1:g1, 2:g2, 3:g1] was processed in the order 1, 3, 2, each row
\* with its getStatus call and its start call.
C13_Witness ==
    /\ pc = "done"
    /\ Len(instances) = 3
    /\ instances[1].CompartmentId = "g1"
    /\ instances[2].CompartmentId = "g2"
    /\ instances[3].CompartmentId = "g1"
    /\ [k \in 1..3 |-> report[k].row] = <<1, 3, 2>>
    /\ [k \in 1..Len(calls) |-> calls[k].row] = <<1, 1, 3, 3, 2, 2>>

\* C14 (SpecOrder): grouping is an order-preserving partition.  The groups
\* have distinct compartments, in the order in which the card first shows
\* them; a group's rows are in card order; every row has the compartment of
\* its group; and the groups together hold as many rows as the card, every
\* row of the card among them (none dropped, none merged with an equal row,
\* none twice).
C14_OrderPreservingPartition ==
    pc \notin {"load", "group", "exit"} =>
        /\ \A k \in 1..Len(compartments) : \A l \in (k + 1)..Len(compartments) :
              /\ compartments[k].CompartmentId # compartments[l].CompartmentId
              /\ compartments[k].members[1] < compartments[l].members[1]
        /\ \A k \in 1..Len(compartments) :
              LET members == compartments[k].members IN
              /\ members # <<>>
              /\ FirstOfCompartment(members[1])
              /\ \A e \in 1..(Len(members) - 1) : members[e] < members[e + 1]
              /\ \A e \in 1..Len(members) :
                    /\ members[e] \in 1..Len(instances)
                    /\ instances[members[e]].CompartmentId =
                           compartments[k].CompartmentId
        /\ Len(ProcessingOrder) = Len(instances)
        /\ {ProcessingOrder[j] : j \in 1..Len(ProcessingOrder)} =
              1..Len(instances)

\* The card [1:g1, 2:g2, 3:g1], whose rows 1 and 3 are equal, is grouped as
\* [g1: [1, 3], g2: [2]].
C14_Witness ==
    /\ pc = "next"
    /\ Len(instances) = 3
    /\ instances[1] = instances[3]
    /\ instances[2].CompartmentId = "g2"
    /\ compartments = <<[CompartmentId |-> "g1", members |-> <<1, 3>>],
                        [CompartmentId |-> "g2", members |-> <<2>>]>>

\* A cell that is neither blank, nor HH:MM in range, nor a timestamp.
Unparseable(raw) ==
    \/ raw.shape = "junk"
    \/ /\ raw.shape = "clock"
       /\ \/ raw.hour \notin 0..(HoursPerDay - 1)
          \/ raw.minute \notin 0..(MinutesPerHour - 1)

\* The row whose times start_time and stop_time are parsed from.
ParsedRow ==
    IF pc \in {"parse_stop", "resolve", "crashed", "get_status", "reconcile"}
    THEN CurrentRow
    ELSE report[Len(report)].row

StartParsed ==
    pc \in {"parse_stop", "resolve", "crashed", "get_status", "reconcile"}
    \/ Resolved

StopParsed ==
    pc \in {"resolve", "crashed", "get_status", "reconcile"} \/ Resolved

\* What a single time gives: its action from the time on, none before, and
\* none without the time.
SingleSided(action, t) ==
    IF t # None /\ Now >= Key(t) THEN action ELSE "none"

\* C15 (SpecResolve): parse errors.  A cell that cannot be parsed is parsed
\* to None; the row is then resolved as the single-sided row of its other
\* time (to none when that is missing or cannot be parsed either); and the
\* run only ends early on a parsed time with a UTC offset, never on a cell
\* that cannot be parsed.
C15_ParseErrorIsAbsent ==
    /\ (StartParsed /\ Unparseable(instances[ParsedRow].StartTime)) =>
          /\ start_time = None
          /\ Resolved => required_action = SingleSided("stop", stop_time)
    /\ (StopParsed /\ Unparseable(instances[ParsedRow].StopTime)) =>
          /\ stop_time = None
          /\ Resolved => required_action = SingleSided("start", start_time)
    /\ pc = "crashed" =>
          \/ start_time # None /\ start_time.tz = "utc"
          \/ stop_time # None /\ stop_time.tz = "utc"

\* A row with an unparseable start and the stop 08:00 was stopped, and the
\* run completed.
C15_Witness ==
    /\ pc = "done"
    /\ Len(report) = 1
    /\ Unparseable(instances[1].StartTime)
    /\ start_time = None
    /\ instances[1].StopTime = Clock(8, 0)
    /\ report[1].kind = "Applied"
    /\ report[1].detail = "Stopped"

\* What the classification of the parser gives for a cell, when t is the
\* parsed value: None for a blank cell, the time of day on a date of the run
\* for HH:MM in range, and the timestamp itself for a timestamp.
Classified(raw, t) ==
    /\ raw.shape = "blank" => t = None
    /\ (/\ raw.shape = "clock"
        /\ raw.hour \in 0..(HoursPerDay - 1)
        /\ raw.minute \in 0..(MinutesPerHour - 1)) =>
          \E d \in Today..clock_date :
              t = DateTime("naive", d, raw.hour, raw.minute, 0)
    /\ raw.shape = "iso" =>
          t = DateTime(IF raw.offset THEN "utc" ELSE "naive",
                       raw.date, raw.hour, raw.minute, raw.second)

\* C16 (SpecResolve): the classification of the parser.  A blank cell is
\* parsed to None, HH:MM in range to that time of day on the current date,
\* and a timestamp, with or without a seconds field, to that timestamp.
C16_ParserClassification ==
    /\ StartParsed => Classified(instances[ParsedRow].StartTime, start_time)
    /\ StopParsed => Classified(instances[ParsedRow].StopTime, stop_time)

\* The card has the columns the loader asks for: InstanceId, CompartmentId
\* and at least one of StartTime, StopTime.
ColumnsAccepted ==
    /\ {"InstanceId", "CompartmentId"} \subseteq csv_file.headers
    /\ {"StartTime", "StopTime"} \cap csv_file.headers # {}

Untimed(row) == row.StartTime = Blank /\ row.StopTime = Blank

C18_ActionNeedsItsTime ==
    Resolved =>
        /\ required_action = "start" => start_time # None
        /\ required_action = "stop" => stop_time # None
        /\ (start_time = None /\ stop_time = None) => required_action = "none"

\* Before its stop time, a row with a stop time only is resolved to none.
C18_Witness ==
    /\ Resolved
    /\ start_time = None
    /\ stop_time # None
    /\ Now < Key(stop_time)
    /\ required_action = "none"

\* C19 (Spec): the calls of a row.  A row has at most two calls.  The first
\* is its own getStatus call, and every row with an outcome for the action
\* start or stop has it: the status is fetched for each row again, also for
\* an instance that an earlier row has fetched it for.  The second, if any,
\* is the start or stop call of the row's action, made after the getStatus
\* call has returned a status.  A row with the action none has no call.
C19_CallProtocol ==
    \A r \in 1..Len(instances) :
        LET cs == CallsOf(r)
            os == OutcomesOf(r)
        IN
        /\ Len(cs) <= 2
        /\ cs # <<>> => cs[1].op = "getStatus"
        /\ Len(cs) = 2 =>
              /\ cs[1].result \in LifecycleStates
              /\ cs[2].op \in {"start", "stop"}
              /\ os # <<>>
              /\ cs[2].op = os[1].action
        /\ os # <<>> =>
              IF os[1].action \in {"start", "stop"}
              THEN cs # <<>>
              ELSE cs = <<>>

\* Two rows of the same instance: the status was fetched for each of them,
\* with different results, and only the second row was started.
C19_Witness ==
    /\ pc = "done"
    /\ Len(instances) = 2
    /\ instances[1].InstanceId = instances[2].InstanceId
    /\ Len(calls) = 3
    /\ calls[1].op = "getStatus" /\ calls[1].result = "RUNNING"
    /\ calls[2].op = "getStatus" /\ calls[2].result = "STOPPED"
    /\ calls[1].row # calls[2].row
    /\ calls[3].op = "start" /\ calls[3].row = calls[2].row

\* A cell of the HH:MM shape with its hour and minute in range.
ClockTime(raw) ==
    /\ raw.shape = "clock"
    /\ raw.hour \in 0..(HoursPerDay - 1)
    /\ raw.minute \in 0..(MinutesPerHour - 1)

\* The cell as a time of the day of current_time.
Anchored(raw) ==
    IF ClockTime(raw)
    THEN DateTime("naive", current_time.date, raw.hour, raw.minute, 0)
    ELSE None

\* C20 (SpecResolve): one date for a run.  Every HH:MM time is parsed to a
\* time of the day of current_time, and the action of a row whose cells are
\* HH:MM or blank is the one that current_time and those times of that day
\* give, also when midnight passes during the run.
C20_AnchoredToRunDate ==
    /\ (StartParsed /\ ClockTime(instances[ParsedRow].StartTime)) =>
          start_time.date = current_time.date
    /\ (StopParsed /\ ClockTime(instances[ParsedRow].StopTime)) =>
          stop_time.date = current_time.date
    /\ Resolved =>
          LET row == instances[ParsedRow] IN
          (/\ ClockTime(row.StartTime) \/ row.StartTime = Blank
           /\ ClockTime(row.StopTime) \/ row.StopTime = Blank) =>
              required_action =
                  get_required_action(current_time, Anchored(row.StartTime),
                                      Anchored(row.StopTime))

============================================================================
